---------------------------- MODULE Spec2Model ----------------------------
(***************************************************************************)
(* A model of journalist (lepisma/journalist): the note-to-feed-item       *)
(* pipeline.  Strings are sequences of one-character strings, Option<T>    *)
(* is a sequence of length 0 (None) or 1 (Some), Result<T> is a record     *)
(* tagged "Ok" or "Err", and instants are natural numbers.                 *)
(***************************************************************************)
EXTENDS Integers, Sequences, FiniteSets, TLC

VARIABLES
    a, b, c,        \* operands of NewsItem + NewsItem
    phase,          \* which merges have been evaluated
    res,            \* the Result of the last merge
    file,           \* the note file OrgNode::from_file is given
    ppc,            \* where from_file is: "open", "scan", "done"
    pos,            \* the number of lines the scan has consumed
    scan,           \* from_file's locals: id, ref_, tags, title, ...
    node,           \* the Result<OrgNode> from_file returns
    dirOut,         \* what read_bookmarks_from_dir returns for the file
    dbOut,          \* what read_bookmarks returns for the file
    kind,           \* the feed `generate` is asked for
    mode,           \* the source given: "db", "dir" or "none"
    srcOk,          \* whether the directory or the index can be read
    entries,        \* the note files of the archive
    rpc,            \* where main is
    bookmarks,      \* main's bookmarks
    picked,         \* the filtered (and shuffled) references to bookmarks
    shuffled,       \* whether shuffle(&mut rng) has been called
    feed,           \* main's feed
    outFile,        \* the output file: "none" or "written"
    exit,           \* how the process ended: "running", "ok", "panic"
    subject,        \* the Bookmark the predicates are asked about
    unread,         \* what is_unread returned, once it is called
    project,        \* what is_project returned, once it is called
    recommended,    \* what is_recommended returned, once it is called
    item,           \* the NewsItem to_xml_string is called on
    xml             \* the String it returns, once it is called

mergeVars == <<a, b, c, phase, res>>
parseVars == <<ppc, pos, scan, node>>
readVars == <<dirOut, dbOut>>
runVars == <<kind, mode, srcOk, entries, rpc, bookmarks, picked, shuffled,
             feed, outFile, exit>>

classVars == <<subject, unread, project, recommended>>

renderVars == <<item, xml>>

vars ==
    <<mergeVars, file, parseVars, readVars, runVars, classVars, renderVars>>

\* What the actions of one specification leave alone.
notMerge == <<file, parseVars, readVars, runVars, classVars, renderVars>>
notParse == <<mergeVars, readVars, runVars, classVars, renderVars>>
notRead == <<mergeVars, parseVars, runVars, classVars, renderVars>>
notRun == <<mergeVars, file, parseVars, readVars, classVars, renderVars>>
notClass == <<mergeVars, file, parseVars, readVars, runVars, renderVars>>
notRender == <<mergeVars, file, parseVars, readVars, runVars, classVars>>

(***************************************************************************)
(* Bounds of the model.                                                    *)
(***************************************************************************)
MaxTime == 2
MaxCats == 1
MaxLines == 4
MaxFiles == 3
MaxTags == 3
MaxText == 2
MaxSummaryLen == 17

(***************************************************************************)
(* Option, Result and sequence helpers.                                    *)
(***************************************************************************)
None == <<>>
Some(x) == <<x>>
IsSome(o) == Len(o) = 1
Unwrap(o) == o[1]

Ok(v) == [tag |-> "Ok", val |-> v]
Err(m) == [tag |-> "Err", msg |-> m]
Pending == [tag |-> "Pending"]
IsOk(r) == r.tag = "Ok"
IsErr(r) == r.tag = "Err"

Range(s) == {s[i] : i \in 1..Len(s)}
Contains(s, x) == \E i \in 1..Len(s) : s[i] = x
NoDuplicates(s) == \A i, j \in 1..Len(s) : s[i] = s[j] => i = j
SeqsUpTo(S, n) == UNION {[1..k -> S] : k \in 0..n}
MaxOf(x, y) == IF x >= y THEN x ELSE y

\* Every ordering of a finite set, as sequences without repetition.
Orderings(S) == {s \in [1..Cardinality(S) -> S] : Range(s) = S}

(***************************************************************************)
(* utils::union_strings.  Both vectors are collected into HashSets and the *)
(* union is collected back into a Vec: the elements are the set union,     *)
(* each once, in the iteration order of the hash set, which is any order.  *)
(***************************************************************************)
union_strings_concat(x, y) == {x \o y}
union_strings(x, y) == Orderings(Range(x) \cup Range(y))

(***************************************************************************)
(* NewsItem and impl Add for NewsItem.                                     *)
(***************************************************************************)
SEPARATOR == <<"\n", "-", "-", "-", "-", "-", "\n">>

Author == [name |-> <<"A">>, email |-> <<"a", "@">>, uri |-> <<"u">>]

NewsItem(id, link, title, summary, published, updated, authors, categories) ==
    [id |-> id, link |-> link, title |-> title, summary |-> summary,
     published |-> published, updated |-> updated, authors |-> authors,
     categories |-> categories]

merge_summary_reversed(self, other) ==
    IF IsSome(self.summary)
    THEN IF IsSome(other.summary)
         THEN Some(Unwrap(other.summary) \o SEPARATOR \o Unwrap(self.summary))
         ELSE self.summary
    ELSE other.summary
merge_summary(self, other) ==
    IF IsSome(self.summary)
    THEN IF IsSome(other.summary)
         THEN Some(Unwrap(self.summary) \o SEPARATOR \o Unwrap(other.summary))
         ELSE self.summary
    ELSE other.summary

merged_other_first(self, other, cats) ==
    NewsItem(other.id, other.link, other.title, merge_summary(self, other),
             other.published,
             MaxOf(self.updated, other.updated), other.authors, cats)
merged_other_updated(self, other, cats) ==
    NewsItem(self.id, self.link, self.title, merge_summary(self, other),
             self.published, other.updated, self.authors, cats)
merged(self, other, cats) ==
    NewsItem(self.id, self.link, self.title, merge_summary(self, other),
             self.published, MaxOf(self.updated, other.updated),
             self.authors, cats)

\* The results add(self, other) can produce: one error, or one item for each
\* order in which the category union can come out of the hash set.
add_lenient(self, other) ==
    {Ok(merged(self, other, cats)) :
        cats \in union_strings(self.categories, other.categories)}
add(self, other) ==
    IF self.id # other.id
    THEN {Err(<<"different IDs", self, other>>)}
    ELSE {Ok(merged(self, other, cats)) :
            cats \in union_strings(self.categories, other.categories)}

(***************************************************************************)
(* Inputs of the merge specification.                                      *)
(***************************************************************************)
Ids == {<<"1">>, <<"2">>}
Tags == {<<"x">>, <<"y">>}
Summaries == {None, Some(<<"p">>), Some(<<"q", "\n">>)}
Times == 0..MaxTime
CategoryLists == SeqsUpTo(Tags, MaxCats)

\* link, title and authors vary together: two ways an item can look.
Faces == {[link |-> <<"l">>, title |-> <<"t">>, authors |-> <<>>],
          [link |-> <<"m">>, title |-> <<"<", "&">>, authors |-> <<Author>>]}

NewsItems ==
    {NewsItem(i, f.link, f.title, s, p, u, f.authors, cs) :
        i \in Ids, f \in Faces, s \in Summaries, p \in Times, u \in Times,
        cs \in CategoryLists}

(***************************************************************************)
(* pile::Bookmark and impl ToNewsItem for Bookmark.                        *)
(***************************************************************************)
Bookmark(id, ref_, title, tags, created, content) ==
    [id |-> id, ref_ |-> ref_, title |-> title, tags |-> tags,
     created |-> created, content |-> content]

to_newsitem(bm) ==
    NewsItem(bm.id, bm.ref_, bm.title, bm.content, bm.created, bm.created,
             <<>>, bm.tags)

\* ref_, title and content vary together: two ways a bookmark can look.
BookmarkFaces ==
    {[ref_ |-> <<"l">>, title |-> <<"t">>, content |-> None],
     [ref_ |-> <<"m">>, title |-> <<"<", "&">>, content |-> Some(<<"p">>)]}

\* The bookmarks that carry the id i.
BookmarksWithId(i) ==
    {Bookmark(i, f.ref_, f.title, ts, t, f.content) :
        f \in BookmarkFaces, ts \in CategoryLists, t \in Times}

NoItem == [tag |-> "NoItem"]

(***************************************************************************)
(* Text.  char::to_lowercase on the letters the patterns hold, the         *)
(* whitespace str::trim and the regex class \s remove, str::split(",").    *)
(***************************************************************************)
Whitespace == {" ", "\t", "\n", "\r"}

to_lowercase(ch) ==
    CASE ch = "I" -> "i" [] ch = "D" -> "d" [] ch = "R" -> "r"
      [] ch = "O" -> "o" [] ch = "A" -> "a" [] ch = "M" -> "m"
      [] ch = "E" -> "e" [] ch = "F" -> "f" [] ch = "S" -> "s"
      [] ch = "T" -> "t" [] ch = "G" -> "g" [] ch = "L" -> "l"
      [] OTHER -> ch

starts_with(s, prefix) ==
    /\ Len(s) >= Len(prefix)
    /\ \A i \in 1..Len(prefix) : s[i] = prefix[i]

RECURSIVE trim_start(_)
trim_start(s) ==
    IF s # <<>> /\ s[1] \in Whitespace THEN trim_start(Tail(s)) ELSE s

RECURSIVE trim_end(_)
trim_end(s) ==
    IF s # <<>> /\ s[Len(s)] \in Whitespace
    THEN trim_end(SubSeq(s, 1, Len(s) - 1))
    ELSE s

trim(s) == trim_end(trim_start(s))

RECURSIVE split_commas(_)
split_commas(s) ==
    IF \E i \in 1..Len(s) : s[i] = ","
    THEN LET i == CHOOSE k \in 1..Len(s) :
                     /\ s[k] = ","
                     /\ \A j \in 1..(k - 1) : s[j] # ","
         IN  <<SubSeq(s, 1, i - 1)>> \o split_commas(SubSeq(s, i + 1, Len(s)))
    ELSE <<s>>

(***************************************************************************)
(* The four line patterns (case-insensitive prefix, \s*, group 1): the    *)
(* prefix matched                                                          *)
(* without regard to case at the start of the line, the whitespace after   *)
(* it skipped, the rest of the line captured.                              *)
(***************************************************************************)
ID_PREFIX == <<":", "i", "d", ":">>
REF_PREFIX == <<":", "r", "o", "a", "m", "_", "r", "e", "f", "s", ":">>
TAGS_PREFIX == <<"#", "+", "t", "a", "g", "s", ":">>
TITLE_PREFIX == <<"#", "+", "t", "i", "t", "l", "e", ":">>

is_match(prefix, line) ==
    /\ Len(line) >= Len(prefix)
    /\ \A i \in 1..Len(prefix) : to_lowercase(line[i]) = prefix[i]

captures(prefix, line) ==
    trim_start(SubSeq(line, Len(prefix) + 1, Len(line)))

ID_REGEX(line) == is_match(ID_PREFIX, line)
REF_REGEX(line) == is_match(REF_PREFIX, line)
TAGS_REGEX(line) == is_match(TAGS_PREFIX, line)
TITLE_REGEX(line) == is_match(TITLE_PREFIX, line)

\* tags_str.split(",").map(|tag| tag.trim().to_string()).collect()
parse_tags(tags_str) ==
    LET parts == split_commas(tags_str)
    IN  [i \in 1..Len(parts) |-> trim(parts[i])]

(***************************************************************************)
(* Note files.  A file has a name, the lines of its text (what str::lines  *)
(* and BufRead::lines yield: the text cut at each "\n", without it) and    *)
(* whether it can be read.                                                 *)
(***************************************************************************)
NoteFile(name, lines, readable) ==
    [name |-> name, lines |-> lines, readable |-> readable]

STAMP == <<"2", "0", "2", "3", "0", "1", "0", "1", "1", "2", "0", "0", "0", "0">>

\* Utc::now(), and the instant of 2023-01-01 12:00:00 in Asia/Kolkata.
Now == 2
StampInstant == 1

\* NaiveDateTime::parse_from_str(first, "%Y%m%d%H%M%S"), on the leading
\* segments of the file names of the model.
parse_from_str(first) ==
    IF first = STAMP THEN Ok(StampInstant) ELSE Err("ParseError")

\* str::split_once("-"): the text before the first "-", if there is one.
split_once_first(s) ==
    IF \E i \in 1..Len(s) : s[i] = "-"
    THEN LET i == CHOOSE k \in 1..Len(s) :
                     /\ s[k] = "-"
                     /\ \A j \in 1..(k - 1) : s[j] # "-"
         IN  Some(SubSeq(s, 1, i - 1))
    ELSE None

read_datetime(file_name) ==
    LET first == split_once_first(file_name)
    IN  IF IsSome(first)
        THEN parse_from_str(Unwrap(first))
        ELSE Err("Error in parsing file")

(***************************************************************************)
(* OrgNode::from_file.                                                     *)
(***************************************************************************)
OrgNode(id, ref_, title, tags, created, content) ==
    [id |-> id, ref_ |-> ref_, title |-> title, tags |-> tags,
     created |-> created, content |-> content]

\* The locals before the loop.
ScanStart ==
    [id |-> None, ref_ |-> None, tags |-> <<>>, title |-> None,
     header_done |-> FALSE, content |-> <<>>]

\* if header_done { content.push_str(line); content.push_str("\n"); }
push_line(st, line) ==
    IF st.header_done
    THEN [st EXCEPT !.content = st.content \o line \o <<"\n">>]
    ELSE st

\* One turn of the loop over body.lines().
scan_line(st, line) ==
    IF ID_REGEX(line)
    THEN push_line([st EXCEPT !.id = Some(captures(ID_PREFIX, line))], line)
    ELSE IF REF_REGEX(line)
    THEN push_line([st EXCEPT !.ref_ = Some(captures(REF_PREFIX, line))], line)
    ELSE IF TAGS_REGEX(line)
    THEN push_line([st EXCEPT
                      !.tags = parse_tags(captures(TAGS_PREFIX, line))], line)
    ELSE IF TITLE_REGEX(line)
    THEN [st EXCEPT !.title = Some(captures(TITLE_PREFIX, line)),
                    !.header_done = TRUE]
    ELSE push_line(st, line)

RECURSIVE scan_lines(_, _)
scan_lines(st, lines) ==
    IF lines = <<>> THEN st
    ELSE scan_lines(scan_line(st, Head(lines)), Tail(lines))

\* After the loop: the body trimmed, the mandatory fields checked, the
\* creation time read from the file name.
finish_either(st, file_name) ==
    IF IsSome(st.title) \/ IsSome(st.id)
    THEN Ok(OrgNode(IF IsSome(st.id) THEN Unwrap(st.id) ELSE <<>>, st.ref_,
                    IF IsSome(st.title) THEN Unwrap(st.title) ELSE <<>>,
                    st.tags, Now,
                    IF trim(st.content) = <<>> THEN None
                    ELSE Some(trim(st.content))))
    ELSE Err("Parsing error")
finish(st, file_name) ==
    IF IsSome(st.title) /\ IsSome(st.id)
    THEN LET created == read_datetime(file_name)
         IN  IF IsErr(created) THEN created
             ELSE Ok(OrgNode(Unwrap(st.id), st.ref_, Unwrap(st.title),
                             st.tags, created.val,
                             IF trim(st.content) = <<>> THEN None
                             ELSE Some(trim(st.content))))
    ELSE Err("Parsing error")

from_file(f) ==
    IF ~f.readable THEN Err("io")
    ELSE finish(scan_lines(ScanStart, f.lines), f.name)

(***************************************************************************)
(* The source readers of pile.rs, on one note file.                        *)
(***************************************************************************)

\* Bookmark::from_org_node
from_org_node(n) ==
    IF IsSome(n.ref_)
    THEN Ok(Bookmark(n.id, Unwrap(n.ref_), n.title, n.tags, n.created,
                     n.content))
    ELSE Err("Reference not found in node.")

read_bookmark_from_file(f) ==
    LET org_node == from_file(f)
    IN  IF IsErr(org_node) THEN org_node ELSE from_org_node(org_node.val)

\* read_tags: the tags of the first line that matches, or none; none as well
\* when the file cannot be opened.
read_tags(f) ==
    IF f.readable /\ \E i \in 1..Len(f.lines) : TAGS_REGEX(f.lines[i])
    THEN LET i == CHOOSE k \in 1..Len(f.lines) :
                     /\ TAGS_REGEX(f.lines[k])
                     /\ \A j \in 1..(k - 1) : ~TAGS_REGEX(f.lines[j])
         IN  parse_tags(captures(TAGS_PREFIX, f.lines[i]))
    ELSE <<>>

\* read_content skips lines until one that, trimmed, is not empty and starts
\* with neither "#" nor ":"; from that line on every line is kept.
is_skipped(line) ==
    \/ starts_with(trim(line), <<"#">>)
    \/ starts_with(trim(line), <<":">>)
    \/ trim(line) = <<>>

RECURSIVE join_lines(_)
join_lines(lines) ==
    IF lines = <<>> THEN <<>>
    ELSE Head(lines) \o <<"\n">> \o join_lines(Tail(lines))

read_content(f) ==
    IF ~f.readable THEN Err("io")
    ELSE IF \A i \in 1..Len(f.lines) : is_skipped(f.lines[i])
    THEN Ok(<<>>)
    ELSE LET i == CHOOSE k \in 1..Len(f.lines) :
                      /\ ~is_skipped(f.lines[k])
                      /\ \A j \in 1..(k - 1) : is_skipped(f.lines[j])
         IN  Ok(join_lines(SubSeq(f.lines, i, Len(f.lines))))

\* Path::extension: what follows the last "." of the file name, when there
\* is one after the first character.
extension(name) ==
    IF \E i \in 2..Len(name) : name[i] = "."
    THEN LET i == CHOOSE k \in 2..Len(name) :
                     /\ name[k] = "."
                     /\ \A j \in (k + 1)..Len(name) : name[j] # "."
         IN  Some(SubSeq(name, i + 1, Len(name)))
    ELSE None

ORG == <<"o", "r", "g">>

\* One turn of the loop of read_bookmarks_from_dir: what it pushes.
dir_entry(f) ==
    IF extension(f.name) = Some(ORG)
    THEN LET bookmark == read_bookmark_from_file(f)
         IN  IF IsOk(bookmark) THEN <<bookmark.val>> ELSE <<>>
    ELSE <<>>

\* The index (nodes joined with refs) has a row for a note whose text holds
\* an id, a title and a reference; the row holds these and the file's path.
in_index(f) ==
    LET st == scan_lines(ScanStart, f.lines)
    IN  IsSome(st.id) /\ IsSome(st.title) /\ IsSome(st.ref_)

index_row(f) ==
    LET st == scan_lines(ScanStart, f.lines)
    IN  [id |-> Unwrap(st.id), file |-> f, title |-> Unwrap(st.title),
         ref |-> Unwrap(st.ref_)]

\* One turn of the loop of read_bookmarks: the bookmark pushed for a row.
row_bookmark(row) ==
    LET created == read_datetime(row.file.name)
        content == read_content(row.file)
    IN  Bookmark(row.id, row.ref, row.title, read_tags(row.file),
                 IF IsOk(created) THEN created.val ELSE Now,
                 IF IsOk(content) THEN Some(content.val) ELSE None)

db_entry(f) == IF in_index(f) THEN <<row_bookmark(index_row(f))>> ELSE <<>>

(***************************************************************************)
(* Inputs of the parser: lines and file names.                             *)
(***************************************************************************)
LINE_ID == <<":", "I", "D", ":", " ", "a">>
LINE_ID_LOWER == <<":", "i", "d", ":", "b">>
LINE_REF == <<":", "R", "O", "A", "M", "_", "R", "E", "F", "S", ":", " ", "u">>
LINE_TAGS == <<"#", "+", "T", "A", "G", "S", ":", " ", "x", ",", " ", "y">>
LINE_TAGS_LOWER == <<"#", "+", "t", "a", "g", "s", ":", "y">>
LINE_TITLE == <<"#", "+", "T", "I", "T", "L", "E", ":", " ", "T">>
LINE_TITLE_LOWER == <<"#", "+", "t", "i", "t", "l", "e", ":", "V">>
LINE_TEXT == <<"w", " ">>
LINE_BLANK == <<>>

LinePool ==
    {LINE_ID, LINE_ID_LOWER, LINE_REF, LINE_TAGS, LINE_TAGS_LOWER, LINE_TITLE,
     LINE_TITLE_LOWER, LINE_TEXT, LINE_BLANK}

NAME_STAMPED == STAMP \o <<"-", "a", ".", "o", "r", "g">>
NAME_NO_DASH == <<"a", ".", "o", "r", "g">>
NAME_BAD_STAMP == <<"x", "-", "a", ".", "o", "r", "g">>

NamePool == {NAME_STAMPED, NAME_NO_DASH, NAME_BAD_STAMP}

\* The files with one of these names, up to MaxLines lines of the pool,
\* readable or not.
NoteFiles(names) ==
    {NoteFile(n, ls, r) :
        n \in names, ls \in SeqsUpTo(LinePool, MaxLines), r \in BOOLEAN}

(***************************************************************************)
(* Bookmark's classification predicates.                                   *)
(***************************************************************************)
UNSORTED == <<"u", "n", "s", "o", "r", "t", "e", "d">>
PROJECT == <<"p", "r", "o", "j", "e", "c", "t">>
RECOMMEND == <<"r", "e", "c", "o", "m", "m", "e", "n", "d">>
GITHUB_PREFIX ==
    <<"h", "t", "t", "p", "s", ":", "/", "/", "g", "i", "t", "h", "u", "b",
      ".", "c", "o", "m">>

is_unread(bm) == Contains(bm.tags, UNSORTED)

is_project_by_tag_only(bm) == Contains(bm.tags, PROJECT)

is_project(bm) ==
    IF Contains(bm.tags, PROJECT) THEN TRUE
    ELSE starts_with(bm.ref_, GITHUB_PREFIX)

is_recommended_ignoring_unread(bm) == Contains(bm.tags, RECOMMEND)

is_recommended(bm) == Contains(bm.tags, RECOMMEND) /\ ~is_unread(bm)

(***************************************************************************)
(* main, Commands::Generate: the three feeds made from bookmarks.          *)
(***************************************************************************)
PILE_BOOKMARKS ==
    <<"p", "i", "l", "e", "-", "b", "o", "o", "k", "m", "a", "r", "k", "s">>
PILE_BOOKMARKS_PROJECTS == PILE_BOOKMARKS \o <<"-">> \o PROJECT \o <<"s">>
RECOMMENDED_LINKS == RECOMMEND \o <<"e", "d", "-", "l", "i", "n", "k", "s">>

FeedKinds == {PILE_BOOKMARKS, PILE_BOOKMARKS_PROJECTS, RECOMMENDED_LINKS}

\* read_bookmarks_from_dir and read_bookmarks over all the entries.
RECURSIVE read_bookmarks_from_dir(_)
read_bookmarks_from_dir(files) ==
    IF files = <<>> THEN <<>>
    ELSE dir_entry(Head(files)) \o read_bookmarks_from_dir(Tail(files))

RECURSIVE read_bookmarks(_)
read_bookmarks(files) ==
    IF files = <<>> THEN <<>>
    ELSE db_entry(Head(files)) \o read_bookmarks(Tail(files))

\* The filters of the three arms.
passes_filter(k, bm) ==
    IF k = PILE_BOOKMARKS THEN is_unread(bm) /\ ~is_project(bm)
    ELSE IF k = PILE_BOOKMARKS_PROJECTS THEN is_unread(bm) /\ is_project(bm)
    ELSE is_recommended(bm)

\* bookmarks.iter().filter(..).collect(): references to the bookmarks that
\* pass, in the order of the vector (a reference is an index here).
RECURSIVE filter_from(_, _, _)
filter_from(k, bms, i) ==
    IF i > Len(bms) THEN <<>>
    ELSE (IF passes_filter(k, bms[i]) THEN <<i>> ELSE <<>>)
            \o filter_from(k, bms, i + 1)

filtered(k, bms) == filter_from(k, bms, 1)

\* The argument of take(..): 2, 1, and no take at all for recommended-links.
item_limit_off_by_one(k) ==
    IF k = PILE_BOOKMARKS THEN Some(3)
    ELSE IF k = PILE_BOOKMARKS_PROJECTS THEN Some(2)
    ELSE None
item_limit(k) ==
    IF k = PILE_BOOKMARKS THEN Some(2)
    ELSE IF k = PILE_BOOKMARKS_PROJECTS THEN Some(1)
    ELSE None

\* .iter().map(|bm| bm.to_newsitem()).take(n).collect()
feed_items(k, bms, refs) ==
    LET n == IF IsSome(item_limit(k))
             THEN (IF Len(refs) <= Unwrap(item_limit(k)) THEN Len(refs)
                   ELSE Unwrap(item_limit(k)))
             ELSE Len(refs)
    IN  [i \in 1..n |-> to_newsitem(bms[refs[i]])]

NewsFeed(id, items) ==
    [id |-> id, items |-> items, authors |-> <<Author>>, categories |-> <<>>,
     generator |-> <<"j">>, link |-> <<"/">> \o id, updated |-> Now]

NoFeed == [tag |-> "NoFeed"]

(***************************************************************************)
(* Inputs of a run: the notes of the archive.                              *)
(***************************************************************************)
LINE_REF_GITHUB ==
    <<":", "R", "O", "A", "M", "_", "R", "E", "F", "S", ":", " ", "h", "t",
      "t", "p", "s", ":", "/", "/", "g", "i", "t", "h", "u", "b", ".", "c",
      "o", "m", "/", "x">>
LINE_TAGS_UNSORTED ==
    <<"#", "+", "T", "A", "G", "S", ":", " ", "u", "n", "s", "o", "r", "t",
      "e", "d">>
LINE_TAGS_RECOMMEND ==
    <<"#", "+", "T", "A", "G", "S", ":", " ", "r", "e", "c", "o", "m", "m",
      "e", "n", "d">>
LINE_TAGS_BOTH ==
    <<"#", "+", "T", "A", "G", "S", ":", " ", "r", "e", "c", "o", "m", "m",
      "e", "n", "d", ",", " ", "u", "n", "s", "o", "r", "t", "e", "d">>
LINE_TAGS_RECOMMEND_PROJECT ==
    <<"#", "+", "t", "a", "g", "s", ":", " ", "r", "e", "c", "o", "m", "m",
      "e", "n", "d", ",", "p", "r", "o", "j", "e", "c", "t">>
LINE_TAGS_UNSORTED_PROJECT ==
    <<"#", "+", "T", "A", "G", "S", ":", " ", "u", "n", "s", "o", "r", "t",
      "e", "d", ",", " ", "p", "r", "o", "j", "e", "c", "t">>
LINE_ID_C == <<":", "I", "D", ":", " ", "c">>
LINE_ID_P == <<":", "I", "D", ":", " ", "p">>
LINE_ID_Q == <<":", "I", "D", ":", " ", "q">>
LINE_ID_R == <<":", "I", "D", ":", " ", "r">>
LINE_ID_S == <<":", "I", "D", ":", " ", "s">>
LINE_ID_Z == <<":", "I", "D", ":", " ", "z">>

StampedName(slug) == STAMP \o <<"-">> \o slug \o <<".">> \o ORG

NOTE_GENERAL_A ==
    NoteFile(StampedName(<<"a">>),
             <<LINE_ID, LINE_REF, LINE_TAGS_UNSORTED, LINE_TITLE, LINE_TEXT>>,
             TRUE)
NOTE_GENERAL_B ==
    NoteFile(StampedName(<<"b">>),
             <<LINE_ID_LOWER, LINE_REF, LINE_TAGS_UNSORTED, LINE_TITLE_LOWER>>,
             TRUE)
NOTE_GENERAL_C ==
    NoteFile(StampedName(<<"c">>),
             <<LINE_ID_C, LINE_REF, LINE_TAGS_BOTH, LINE_TITLE>>, TRUE)
NOTE_PROJECT_P ==
    NoteFile(StampedName(<<"p">>),
             <<LINE_ID_P, LINE_REF_GITHUB, LINE_TAGS_UNSORTED, LINE_TITLE>>,
             TRUE)
NOTE_PROJECT_Q ==
    NoteFile(StampedName(<<"q">>),
             <<LINE_ID_Q, LINE_REF, LINE_TAGS_UNSORTED_PROJECT, LINE_TITLE>>,
             TRUE)
NOTE_RECOMMEND_R ==
    NoteFile(StampedName(<<"r">>),
             <<LINE_ID_R, LINE_REF, LINE_TAGS_RECOMMEND, LINE_TITLE, LINE_TEXT>>,
             TRUE)
NOTE_RECOMMEND_S ==
    NoteFile(StampedName(<<"s">>),
             <<LINE_ID_S, LINE_REF_GITHUB, LINE_TAGS_RECOMMEND_PROJECT,
               LINE_TITLE>>, TRUE)
NOTE_UNREADABLE ==
    NoteFile(StampedName(<<"z">>),
             <<LINE_ID_Z, LINE_REF, LINE_TAGS_UNSORTED, LINE_TITLE>>, FALSE)

SampleNotes ==
    {NOTE_GENERAL_A, NOTE_GENERAL_B, NOTE_GENERAL_C, NOTE_PROJECT_P,
     NOTE_PROJECT_Q, NOTE_RECOMMEND_R, NOTE_RECOMMEND_S, NOTE_UNREADABLE}

\* The archives: up to MaxFiles different notes, in any order.
Archives ==
    {s \in SeqsUpTo(SampleNotes, MaxFiles) :
        \A i, j \in 1..Len(s) : s[i] = s[j] => i = j}

FileIdle == file = NoteFile(<<>>, <<>>, FALSE)

ParseIdle ==
    /\ ppc = "idle"
    /\ pos = 0
    /\ scan = ScanStart
    /\ node = Pending

ReadIdle ==
    /\ dirOut = Pending
    /\ dbOut = Pending

RunIdle ==
    /\ kind = <<>>
    /\ mode = "none"
    /\ srcOk = FALSE
    /\ entries = <<>>
    /\ rpc = "idle"
    /\ bookmarks = <<>>
    /\ picked = <<>>
    /\ shuffled = FALSE
    /\ feed = NoFeed
    /\ outFile = "none"
    /\ exit = "running"

NoBookmark == [tag |-> "NoBookmark"]

ClassIdle ==
    /\ subject = NoBookmark
    /\ unread = None
    /\ project = None
    /\ recommended = None

RenderIdle ==
    /\ item = NoItem
    /\ xml = None

MergeIdle ==
    /\ a = NoItem
    /\ b = NoItem
    /\ c = NoItem
    /\ phase = "idle"
    /\ res = Pending

(***************************************************************************)
(* SpecMerge: one merge a + b of two arbitrary NewsItems.                  *)
(***************************************************************************)
MergeInit ==
    /\ a \in NewsItems
    /\ b \in NewsItems
    /\ c = NoItem
    /\ phase = "start"
    /\ res = Pending
    /\ FileIdle
    /\ ParseIdle
    /\ ReadIdle
    /\ RunIdle
    /\ ClassIdle
    /\ RenderIdle

\* a + b
MergeAB ==
    /\ phase = "start"
    /\ res' \in add(a, b)
    /\ phase' = "ab"
    /\ UNCHANGED <<a, b, c, notMerge>>

MergeNext == MergeAB

SpecMerge == MergeInit /\ [][MergeNext]_vars

(***************************************************************************)
(* SpecAssoc: three items converted from bookmarks of one id, merged in    *)
(* both groupings, (a + b) + c and a + (b + c).  A caller can merge on     *)
(* only after a merge that returned an item.                               *)
(***************************************************************************)
AssocInit ==
    /\ \E i \in Ids :
        /\ a \in {to_newsitem(bm) : bm \in BookmarksWithId(i)}
        /\ b \in {to_newsitem(bm) : bm \in BookmarksWithId(i)}
        /\ c \in {to_newsitem(bm) : bm \in BookmarksWithId(i)}
    /\ phase = "start"
    /\ res = Pending
    /\ FileIdle
    /\ ParseIdle
    /\ ReadIdle
    /\ RunIdle
    /\ ClassIdle
    /\ RenderIdle

\* b + c
MergeBC ==
    /\ phase = "start"
    /\ res' \in add(b, c)
    /\ phase' = "bc"
    /\ UNCHANGED <<a, b, c, notMerge>>

\* (a + b) + c
MergeLeft ==
    /\ phase = "ab"
    /\ IsOk(res)
    /\ res' \in add(res.val, c)
    /\ phase' = "left"
    /\ UNCHANGED <<a, b, c, notMerge>>

\* a + (b + c)
MergeRight ==
    /\ phase = "bc"
    /\ IsOk(res)
    /\ res' \in add(a, res.val)
    /\ phase' = "right"
    /\ UNCHANGED <<a, b, c, notMerge>>

AssocNext == MergeAB \/ MergeBC \/ MergeLeft \/ MergeRight

SpecAssoc == AssocInit /\ [][AssocNext]_vars

(***************************************************************************)
(* SpecParse: OrgNode::from_file on one note file, a line at a time.       *)
(***************************************************************************)
ParseInit ==
    /\ file \in NoteFiles(NamePool)
    /\ ppc = "open"
    /\ pos = 0
    /\ scan = ScanStart
    /\ node = Pending
    /\ MergeIdle
    /\ ReadIdle
    /\ RunIdle
    /\ ClassIdle
    /\ RenderIdle

\* fs::read_to_string(file_path)?
ReadToString ==
    /\ ppc = "open"
    /\ IF file.readable
       THEN ppc' = "scan" /\ node' = node
       ELSE ppc' = "done" /\ node' = Err("io")
    /\ UNCHANGED <<file, pos, scan, notParse>>

NextLine == file.lines[pos + 1]

\* The loop has a line left to take.
InLoop ==
    /\ ppc = "scan"
    /\ pos < Len(file.lines)

ScanStep ==
    /\ scan' = scan_line(scan, NextLine)
    /\ pos' = pos + 1
    /\ UNCHANGED <<file, ppc, node, notParse>>

ScanId == InLoop /\ ID_REGEX(NextLine) /\ ScanStep
ScanRef == InLoop /\ REF_REGEX(NextLine) /\ ScanStep
ScanTags == InLoop /\ TAGS_REGEX(NextLine) /\ ScanStep
ScanTitle == InLoop /\ TITLE_REGEX(NextLine) /\ ScanStep
ScanOther ==
    /\ InLoop
    /\ ~ID_REGEX(NextLine)
    /\ ~REF_REGEX(NextLine)
    /\ ~TAGS_REGEX(NextLine)
    /\ ~TITLE_REGEX(NextLine)
    /\ ScanStep

\* The loop is over: build the node or fail.
Finish ==
    /\ ppc = "scan"
    /\ pos = Len(file.lines)
    /\ node' = finish(scan, file.name)
    /\ ppc' = "done"
    /\ UNCHANGED <<file, pos, scan, notParse>>

ParseNext ==
    \/ ReadToString
    \/ ScanId
    \/ ScanRef
    \/ ScanTags
    \/ ScanTitle
    \/ ScanOther
    \/ Finish

SpecParse == ParseInit /\ [][ParseNext]_vars

(***************************************************************************)
(* SpecRead: the directory reader and the index-backed reader, each on the *)
(* same note file.                                                         *)
(***************************************************************************)
NAME_NOT_ORG == STAMP \o <<"-", "a", ".", "t", "x", "t">>

Read(out) == [tag |-> "Read", out |-> out]

ReadInit ==
    /\ file \in NoteFiles(NamePool \cup {NAME_NOT_ORG})
    /\ dirOut = Pending
    /\ dbOut = Pending
    /\ MergeIdle
    /\ ParseIdle
    /\ RunIdle
    /\ ClassIdle
    /\ RenderIdle

\* read_bookmarks_from_dir on a directory that holds the file.
DirRead ==
    /\ dirOut = Pending
    /\ dirOut' = Read(dir_entry(file))
    /\ UNCHANGED <<file, dbOut, notRead>>

\* read_bookmarks on an index made from the file.
DbRead ==
    /\ dbOut = Pending
    /\ dbOut' = Read(db_entry(file))
    /\ UNCHANGED <<file, dirOut, notRead>>

ReadNext == DirRead \/ DbRead

SpecRead == ReadInit /\ [][ReadNext]_vars

(***************************************************************************)
(* SpecRun: one run of `generate <kind>` over an archive of notes, from    *)
(* reading the bookmarks to writing the feed file.                         *)
(***************************************************************************)
RunInit ==
    /\ kind \in FeedKinds
    /\ mode \in {"db", "dir", "none"}
    /\ srcOk \in BOOLEAN
    /\ entries \in Archives
    /\ rpc = "read"
    /\ bookmarks = <<>>
    /\ picked = <<>>
    /\ shuffled = FALSE
    /\ feed = NoFeed
    /\ outFile = "none"
    /\ exit = "running"
    /\ MergeIdle
    /\ FileIdle
    /\ ParseIdle
    /\ ReadIdle
    /\ ClassIdle
    /\ RenderIdle

\* Neither --roam-db-path nor --notes-dir-path: panic!
NoSource ==
    /\ rpc = "read"
    /\ mode = "none"
    /\ rpc' = "done"
    /\ exit' = "panic"
    /\ UNCHANGED <<kind, mode, srcOk, entries, bookmarks, picked, shuffled,
                   feed, outFile, notRun>>

\* pile::read_bookmarks(db_path); sqlite::open(..).unwrap() panics when the
\* index cannot be opened.
ReadBookmarks ==
    /\ rpc = "read"
    /\ mode = "db"
    /\ IF srcOk
       THEN /\ bookmarks' = read_bookmarks(entries)
            /\ rpc' = "select"
            /\ exit' = exit
       ELSE /\ bookmarks' = bookmarks
            /\ rpc' = "done"
            /\ exit' = "panic"
    /\ UNCHANGED <<kind, mode, srcOk, entries, picked, shuffled, feed, outFile,
                   notRun>>

\* pile::read_bookmarks_from_dir(dir_path); read_dir(..).unwrap() panics
\* when the directory cannot be read.
ReadBookmarksFromDir ==
    /\ rpc = "read"
    /\ mode = "dir"
    /\ IF srcOk
       THEN /\ bookmarks' = read_bookmarks_from_dir(entries)
            /\ rpc' = "select"
            /\ exit' = exit
       ELSE /\ bookmarks' = bookmarks
            /\ rpc' = "done"
            /\ exit' = "panic"
    /\ UNCHANGED <<kind, mode, srcOk, entries, picked, shuffled, feed, outFile,
                   notRun>>

\* The pile feeds: filter, then shuffle(&mut rng), which leaves any order.
SelectShuffled ==
    /\ rpc = "select"
    /\ kind \in {PILE_BOOKMARKS, PILE_BOOKMARKS_PROJECTS}
    /\ picked' \in Orderings(Range(filtered(kind, bookmarks)))
    /\ shuffled' = TRUE
    /\ rpc' = "assemble"
    /\ UNCHANGED <<kind, mode, srcOk, entries, bookmarks, feed, outFile, exit,
                   notRun>>

\* recommended-links: filter only.
SelectRecommended ==
    /\ rpc = "select"
    /\ kind = RECOMMENDED_LINKS
    /\ picked' = filtered(kind, bookmarks)
    /\ rpc' = "assemble"
    /\ UNCHANGED <<kind, mode, srcOk, entries, bookmarks, shuffled, feed, outFile,
                   exit, notRun>>

\* feed = NewsFeed { .. }
Assemble ==
    /\ rpc = "assemble"
    /\ feed' = NewsFeed(kind, feed_items(kind, bookmarks, picked))
    /\ rpc' = "write"
    /\ UNCHANGED <<kind, mode, srcOk, entries, bookmarks, picked, shuffled,
                   outFile, exit, notRun>>

\* File::create(output_file)? and write_all(..)?, then Ok(()).
WriteOutput ==
    /\ rpc = "write"
    /\ outFile' = "written"
    /\ exit' = "ok"
    /\ rpc' = "done"
    /\ UNCHANGED <<kind, mode, srcOk, entries, bookmarks, picked, shuffled,
                   feed, notRun>>

RunNext ==
    \/ NoSource
    \/ ReadBookmarks
    \/ ReadBookmarksFromDir
    \/ SelectShuffled
    \/ SelectRecommended
    \/ Assemble
    \/ WriteOutput

SpecRun == RunInit /\ [][RunNext]_vars

(***************************************************************************)
(* SpecClassify: the three predicates of Bookmark, asked in any order of   *)
(* one bookmark.  Its tags are any list of up to MaxTags tags of the pool, *)
(* its reference any of the pool.                                          *)
(***************************************************************************)
TAG_PROJECTS == <<"p", "r", "o", "j", "e", "c", "t", "s">>
TAG_OTHER == <<"x">>

ClassTags == {UNSORTED, PROJECT, RECOMMEND, TAG_PROJECTS, TAG_OTHER}

\* References: under the prefix, the prefix itself, the prefix cut short,
\* another scheme, the prefix after a space, another host.
REF_GITHUB_REPO == GITHUB_PREFIX \o <<"/", "a">>
REF_GITHUB_CUT == SubSeq(GITHUB_PREFIX, 1, Len(GITHUB_PREFIX) - 1)
REF_GITHUB_HTTP == SubSeq(GITHUB_PREFIX, 1, 4) \o SubSeq(GITHUB_PREFIX, 6, 18)
REF_GITHUB_SPACED == <<" ">> \o GITHUB_PREFIX
REF_ELSEWHERE ==
    <<"h", "t", "t", "p", "s", ":", "/", "/", "e", "x", ".", "o", "r", "g">>

ClassRefs ==
    {REF_GITHUB_REPO, GITHUB_PREFIX, REF_GITHUB_CUT, REF_GITHUB_HTTP,
     REF_GITHUB_SPACED, REF_ELSEWHERE}

ClassBookmarks ==
    {Bookmark(<<"1">>, r, <<"t">>, ts, 0, None) :
        r \in ClassRefs, ts \in SeqsUpTo(ClassTags, MaxTags)}

ClassInit ==
    /\ subject \in ClassBookmarks
    /\ unread = None
    /\ project = None
    /\ recommended = None
    /\ MergeIdle
    /\ FileIdle
    /\ ParseIdle
    /\ ReadIdle
    /\ RunIdle
    /\ RenderIdle

IsUnread ==
    /\ unread = None
    /\ unread' = Some(is_unread(subject))
    /\ UNCHANGED <<subject, project, recommended, notClass>>

IsProject ==
    /\ project = None
    /\ project' = Some(is_project(subject))
    /\ UNCHANGED <<subject, unread, recommended, notClass>>

IsRecommended ==
    /\ recommended = None
    /\ recommended' = Some(is_recommended(subject))
    /\ UNCHANGED <<subject, unread, project, notClass>>

ClassNext == IsUnread \/ IsProject \/ IsRecommended

SpecClassify == ClassInit /\ [][ClassNext]_vars

(***************************************************************************)
(* impl ToXmlString for NewsItem.  htmlescape::encode_minimal replaces     *)
(* each of the five characters of its table by an entity and copies every  *)
(* other character.  The template is registered under the name news-item,  *)
(* which ends in none of the suffixes Tera escapes on its own, so each     *)
(* value is written as it stands in the context.  The returned String is   *)
(* kept as the sequence of the pieces the template writes: the opening     *)
(* line, one piece for each element, the closing line.                     *)
(***************************************************************************)
encode_char(ch) ==
    CASE ch = "\"" -> <<"&", "q", "u", "o", "t", ";">>
      [] ch = "&" -> <<"&", "a", "m", "p", ";">>
      [] ch = "'" -> <<"&", "#", "x", "2", "7", ";">>
      [] ch = "<" -> <<"&", "l", "t", ";">>
      [] ch = ">" -> <<"&", "g", "t", ";">>
      [] OTHER -> <<ch>>

RECURSIVE encode_minimal_keeping_ampersand(_)
encode_minimal_keeping_ampersand(s) ==
    IF s = <<>> THEN <<>>
    ELSE (IF Head(s) = "&" THEN <<"&">> ELSE encode_char(Head(s)))
         \o encode_minimal_keeping_ampersand(Tail(s))

RECURSIVE encode_minimal(_)
encode_minimal(s) ==
    IF s = <<>> THEN <<>>
    ELSE encode_char(Head(s)) \o encode_minimal(Tail(s))

\* The value {% if %} tests: null (None) and the empty string are false.
is_truthy(value) == IsSome(value) /\ Unwrap(value) # <<>>

\* An instant as the template writes it: its digit, in UTC.
instant_text(t) ==
    <<<<"0", "1", "2", "3", "4", "5", "6", "7", "8", "9">>[t + 1], "Z">>

author_to_xml_string(self) ==
    <<"<", "a", "u", "t", "h", "o", "r", ">", "\n", " ", " ", "<", "n", "a",
      "m", "e", ">">> \o self.name
    \o <<"<", "/", "n", "a", "m", "e", ">", "\n", " ", " ", "<", "e", "m",
         "a", "i", "l", ">">> \o self.email
    \o <<"<", "/", "e", "m", "a", "i", "l", ">", "\n", " ", " ", "<", "u",
         "r", "i", ">">> \o self.uri
    \o <<"<", "/", "u", "r", "i", ">", "\n", "<", "/", "a", "u", "t", "h",
         "o", "r", ">">>

TITLE_OPEN == <<"\n", " ", " ", "<", "t", "i", "t", "l", "e", ">">>
TITLE_CLOSE == <<"<", "/", "t", "i", "t", "l", "e", ">">>
SUMMARY_OPEN ==
    <<"\n", " ", " ", "<", "s", "u", "m", "m", "a", "r", "y", " ", "t", "y",
      "p", "e", "=", "\"", "t", "e", "x", "t", "\"", ">">>
SUMMARY_CLOSE == <<"<", "/", "s", "u", "m", "m", "a", "r", "y", ">">>

to_xml_string(self) ==
    LET ctx == NewsItem(self.id, self.link, encode_minimal(self.title),
                        IF IsSome(self.summary)
                        THEN Some(encode_minimal(Unwrap(self.summary)))
                        ELSE None,
                        self.published, self.updated, self.authors,
                        self.categories)
        authors == IF self.authors = <<>> THEN <<>>
                   ELSE [i \in 1..Len(self.authors) |->
                            author_to_xml_string(self.authors[i])]
        ATTR_CLOSE == <<"\"", " ", "/", ">">>
        INDENT == <<"\n", " ", " ">>
    IN  <<<<"<", "e", "n", "t", "r", "y", ">">>,
          TITLE_OPEN \o ctx.title \o TITLE_CLOSE,
          <<"\n", " ", " ", "<", "l", "i", "n", "k", " ", "h", "r", "e", "f",
            "=", "\"">> \o ctx.link \o ATTR_CLOSE,
          <<"\n", " ", " ", "<", "i", "d", ">", "u", "r", "n", ":", "u", "u",
            "i", "d", ":">> \o ctx.id \o <<"<", "/", "i", "d", ">">>,
          <<"\n", " ", " ", "<", "u", "p", "d", "a", "t", "e", "d", ">">>
            \o instant_text(ctx.updated)
            \o <<"<", "/", "u", "p", "d", "a", "t", "e", "d", ">">>,
          <<"\n", " ", " ", "<", "p", "u", "b", "l", "i", "s", "h", "e", "d",
            ">">> \o instant_text(ctx.published)
            \o <<"<", "/", "p", "u", "b", "l", "i", "s", "h", "e", "d", ">">>
        >>
        \o (IF is_truthy(ctx.summary)
            THEN <<SUMMARY_OPEN \o Unwrap(ctx.summary) \o SUMMARY_CLOSE>>
            ELSE <<>>)
        \o (IF ctx.categories = <<>> THEN <<>>
            ELSE [i \in 1..Len(ctx.categories) |->
                     <<"\n", " ", " ", "<", "c", "a", "t", "e", "g", "o", "r",
                       "y", " ", "t", "e", "r", "m", "=", "\"">>
                     \o ctx.categories[i] \o ATTR_CLOSE])
        \o (IF authors = <<>> THEN <<>>
            ELSE [i \in 1..Len(authors) |-> INDENT \o authors[i]])
        \o <<<<"\n", "<", "/", "e", "n", "t", "r", "y", ">">>>>

(***************************************************************************)
(* SpecRender: to_xml_string on one item whose title and summary are any   *)
(* texts of up to MaxText characters, the five escaped ones among them.    *)
(***************************************************************************)
RenderTexts == SeqsUpTo({"\"", "&", "'", "<", ">", "a"}, MaxText)

RenderItems ==
    {NewsItem(<<"1">>, f.link, t, sm, 0, 1, f.authors, cs) :
        f \in Faces, cs \in {<<>>, <<<<"x">>, <<"y">>>>}, t \in RenderTexts,
        sm \in {None} \cup {Some(x) : x \in RenderTexts}}

RenderInit ==
    /\ item \in RenderItems
    /\ xml = None
    /\ MergeIdle
    /\ FileIdle
    /\ ParseIdle
    /\ ReadIdle
    /\ RunIdle
    /\ ClassIdle

Render ==
    /\ xml = None
    /\ xml' = Some(to_xml_string(item))
    /\ UNCHANGED <<item, notRender>>

RenderNext == Render

SpecRender == RenderInit /\ [][RenderNext]_vars

(***************************************************************************)
(* SpecChain: an item converted from a bookmark, merged any number of      *)
(* times: with a newly converted item of the same id, as the first or the  *)
(* second operand, and with a merged item set aside earlier, as the first  *)
(* or the second operand.  Every merge is of one id, so every merge        *)
(* returns an item.  A merge is taken while the summary it builds has at   *)
(* most MaxSummaryLen characters.                                          *)
(***************************************************************************)
Converted(i) ==
    {to_newsitem(Bookmark(i, f.ref_, f.title, ts, t, f.content)) :
        f \in BookmarkFaces, ts \in {<<>>, <<<<"x">>>>}, t \in Times}

Fits(r) ==
    /\ IsOk(r)
    /\ IsSome(r.val.summary) => Len(Unwrap(r.val.summary)) <= MaxSummaryLen

ChainInit ==
    /\ a = NoItem
    /\ b = NoItem
    /\ c = NoItem
    /\ phase = "converted"
    /\ \E i \in Ids : res \in {Ok(x) : x \in Converted(i)}
    /\ FileIdle
    /\ ParseIdle
    /\ ReadIdle
    /\ RunIdle
    /\ ClassIdle
    /\ RenderIdle

\* res + x, x newly converted
MergeFresh ==
    /\ \E x \in Converted(res.val.id) : \E r \in add(res.val, x) :
           /\ Fits(r)
           /\ res' = r
    /\ phase' = "first"
    /\ UNCHANGED <<a, b, c, notMerge>>

\* x + res, x newly converted
MergeIntoFresh ==
    /\ \E x \in Converted(res.val.id) : \E r \in add(x, res.val) :
           /\ Fits(r)
           /\ res' = r
    /\ phase' = "second"
    /\ UNCHANGED <<a, b, c, notMerge>>

\* The item is set aside and another bookmark of the id is converted.
SetAside ==
    /\ phase # "converted"
    /\ c' = res.val
    /\ \E x \in Converted(res.val.id) : res' = Ok(x)
    /\ phase' = "converted"
    /\ UNCHANGED <<a, b, notMerge>>

\* res + c
MergeAside ==
    /\ c # NoItem
    /\ \E r \in add(res.val, c) :
           /\ Fits(r)
           /\ res' = r
    /\ phase' = "first"
    /\ UNCHANGED <<a, b, c, notMerge>>

\* c + res
MergeIntoAside ==
    /\ c # NoItem
    /\ \E r \in add(c, res.val) :
           /\ Fits(r)
           /\ res' = r
    /\ phase' = "second"
    /\ UNCHANGED <<a, b, c, notMerge>>

ChainNext ==
    \/ MergeFresh
    \/ MergeIntoFresh
    \/ SetAside
    \/ MergeAside
    \/ MergeIntoAside

SpecChain == ChainInit /\ [][ChainNext]_vars

(***************************************************************************)
(* Claims on the merge.                                                    *)
(***************************************************************************)

\* C1: a + b is an error whenever a.id # b.id and an item whenever
\* a.id = b.id; an error carries no item, so with different ids neither
\* operand is returned.
C1_MergeFailsIffIdsDiffer ==
    phase = "ab" =>
        /\ a.id # b.id => IsErr(res) /\ "val" \notin DOMAIN res
        /\ a.id = b.id => IsOk(res)

C1_Witness ==
    /\ phase = "ab"
    /\ a.id # b.id
    /\ IsErr(res)

\* C2: the summary of a + b is a.summary, the separator "\n-----\n" and
\* b.summary when both are present, the present one when exactly one is,
\* and absent when neither is.
C2_MergeSummary ==
    phase = "ab" /\ a.id = b.id =>
        /\ IsOk(res)
        /\ IsSome(a.summary) /\ IsSome(b.summary) =>
              res.val.summary =
                 Some(a.summary[1] \o <<"\n", "-", "-", "-", "-", "-", "\n">>
                        \o b.summary[1])
        /\ IsSome(a.summary) /\ ~IsSome(b.summary) =>
              res.val.summary = a.summary
        /\ ~IsSome(a.summary) /\ IsSome(b.summary) =>
              res.val.summary = b.summary
        /\ ~IsSome(a.summary) /\ ~IsSome(b.summary) =>
              res.val.summary = None

C2_Witness ==
    /\ phase = "ab"
    /\ IsOk(res)
    /\ IsSome(a.summary)
    /\ IsSome(b.summary)
    /\ a.summary # b.summary
    /\ Len(res.val.summary[1]) =
          Len(a.summary[1]) + 7 + Len(b.summary[1])

\* C3: a + b takes id, link, title, authors and published from a, whatever
\* b holds.
C3_MergeTakesFromFirst ==
    phase = "ab" /\ IsOk(res) =>
        /\ res.val.id = a.id
        /\ res.val.link = a.link
        /\ res.val.title = a.title
        /\ res.val.authors = a.authors
        /\ res.val.published = a.published

C3_Witness ==
    /\ phase = "ab"
    /\ IsOk(res)
    /\ b.link # a.link
    /\ b.title # a.title
    /\ b.authors # a.authors
    /\ b.published < a.published
    /\ res.val.published = a.published

\* C4: for three items of one id, (a + b) + c and a + (b + c) both have the
\* latest of the three updated timestamps, and categories that are the
\* union of the three category lists, each category once.
C4_MergeAssociative ==
    phase \in {"left", "right"} =>
        /\ IsOk(res)
        /\ res.val.updated \in {a.updated, b.updated, c.updated}
        /\ res.val.updated >= a.updated
        /\ res.val.updated >= b.updated
        /\ res.val.updated >= c.updated
        /\ Range(res.val.categories) =
              Range(a.categories) \cup Range(b.categories)
                 \cup Range(c.categories)
        /\ NoDuplicates(res.val.categories)

C4_Witness ==
    /\ phase = "right"
    /\ IsOk(res)
    /\ a.updated < b.updated
    /\ b.updated < c.updated
    /\ a.categories = b.categories
    /\ a.categories # <<>>
    /\ c.categories # <<>>
    /\ c.categories # a.categories
    /\ res.val.updated = c.updated
    /\ Len(res.val.categories) = 2

(***************************************************************************)
(* Claims on the note parser.                                              *)
(***************************************************************************)

\* C5: once the title line has been seen, every later line is appended
\* verbatim to the body and none changes id, reference, tags or title; no
\* line is appended before that, the title line included.
C5_BodyPhaseTakesNoHeaders ==
    [][ppc = "scan" /\ ppc' = "scan" /\ pos' = pos + 1 =>
          IF scan.header_done
          THEN /\ scan'.id = scan.id
               /\ scan'.ref_ = scan.ref_
               /\ scan'.tags = scan.tags
               /\ scan'.title = scan.title
               /\ scan'.content = scan.content \o NextLine \o <<"\n">>
          ELSE scan'.content = <<>>]_vars

\* The lines of the file that match the pattern with this prefix.
LinesMatching(prefix) ==
    {i \in 1..Len(file.lines) : is_match(prefix, file.lines[i])}

\* What the last line matching the prefix holds after it.
LastCaptured(prefix) ==
    LET i == CHOOSE k \in LinesMatching(prefix) :
                 \A j \in LinesMatching(prefix) : j <= k
    IN  trim_start(SubSeq(file.lines[i], Len(prefix) + 1, Len(file.lines[i])))

\* C10: parsing a readable note with no id line or no title line fails with
\* the missing-field error; a returned OrgNode means the input had an id line
\* and a title line, and holds the id and the title they captured (the last
\* of each).
C10_NodeNeedsIdAndTitle ==
    ppc = "done" =>
        /\ file.readable
             /\ (LinesMatching(ID_PREFIX) = {} \/ LinesMatching(TITLE_PREFIX) = {})
             => node = Err("Parsing error")
        /\ IsOk(node) =>
             /\ LinesMatching(ID_PREFIX) # {}
             /\ LinesMatching(TITLE_PREFIX) # {}
             /\ node.val.id = LastCaptured(ID_PREFIX)
             /\ node.val.title = LastCaptured(TITLE_PREFIX)

C10_Witness ==
    /\ ppc = "done"
    /\ IsOk(node)
    /\ file.lines = <<LINE_ID, LINE_TITLE, LINE_TEXT, LINE_ID_LOWER>>
    /\ node.val.id = <<"b">>
    /\ node.val.title = <<"T">>
    /\ node.val.content = Some(<<"w", " ", "\n", ":", "i", "d", ":", "b">>)

(***************************************************************************)
(* Claims on the source readers.                                           *)
(***************************************************************************)

\* The file is a readable .org note whose text has an id line, a title line
\* and a reference line.
NoteWithIdTitleRef ==
    /\ file.readable
    /\ extension(file.name) = Some(ORG)
    /\ \E i \in 1..Len(file.lines) : is_match(ID_PREFIX, file.lines[i])
    /\ \E i \in 1..Len(file.lines) : is_match(TITLE_PREFIX, file.lines[i])
    /\ \E i \in 1..Len(file.lines) : is_match(REF_PREFIX, file.lines[i])

\* The file name has no "-", or what precedes its first "-" is no timestamp.
TimestampUnrecoverable ==
    \/ \A i \in 1..Len(file.name) : file.name[i] # "-"
    \/ ~starts_with(file.name, STAMP \o <<"-">>)

\* C6: for a note with id, title and reference whose file name yields no
\* timestamp, each reader still returns the Bookmark, created at the
\* current instant.
C6_BadFilenameStillYieldsBookmark ==
    NoteWithIdTitleRef /\ TimestampUnrecoverable =>
        /\ dirOut # Pending =>
              Len(dirOut.out) = 1 /\ dirOut.out[1].created = Now
        /\ dbOut # Pending =>
              Len(dbOut.out) = 1 /\ dbOut.out[1].created = Now

\* C7: for a note with id, title and reference, the Bookmark of the
\* directory reader and the Bookmark of the index-backed reader have the
\* same tags and the same body.
C7_ReadersAgreeOnTagsAndBody ==
    /\ NoteWithIdTitleRef
    /\ dirOut # Pending
    /\ dbOut # Pending
    /\ Len(dirOut.out) = 1
    /\ Len(dbOut.out) = 1
    => /\ dirOut.out[1].tags = dbOut.out[1].tags
       /\ dirOut.out[1].content = dbOut.out[1].content

(***************************************************************************)
(* Claims on the feed assembly and on a run.                               *)
(***************************************************************************)
HasTag(bm, tag) == \E j \in 1..Len(bm.tags) : bm.tags[j] = tag

LooksLikeProject(bm) ==
    \/ HasTag(bm, PROJECT)
    \/ /\ Len(bm.ref_) >= Len(GITHUB_PREFIX)
       /\ SubSeq(bm.ref_, 1, Len(GITHUB_PREFIX)) = GITHUB_PREFIX

\* The candidates (positions in bookmarks) that satisfy the kind's filter.
Matching ==
    {i \in 1..Len(bookmarks) :
        \/ /\ kind = PILE_BOOKMARKS
           /\ HasTag(bookmarks[i], UNSORTED)
           /\ ~LooksLikeProject(bookmarks[i])
        \/ /\ kind = PILE_BOOKMARKS_PROJECTS
           /\ HasTag(bookmarks[i], UNSORTED)
           /\ LooksLikeProject(bookmarks[i])
        \/ /\ kind = RECOMMENDED_LINKS
           /\ HasTag(bookmarks[i], RECOMMEND)
           /\ ~HasTag(bookmarks[i], UNSORTED)}

\* The items are conversions of distinct candidates that satisfy the filter.
ItemsAreMatchingCandidates ==
    /\ Range(picked) = Matching
    /\ NoDuplicates(picked)
    /\ Len(feed.items) <= Len(picked)
    /\ \A i \in 1..Len(feed.items) :
          LET bm == bookmarks[picked[i]]
          IN  /\ feed.items[i].id = bm.id
              /\ feed.items[i].link = bm.ref_
              /\ feed.items[i].title = bm.title
              /\ feed.items[i].summary = bm.content
              /\ feed.items[i].categories = bm.tags
              /\ feed.items[i].published = bm.created
              /\ feed.items[i].updated = bm.created

\* C8, as claimed: for every feed kind the items are conversions of distinct
\* matching candidates, the filtered set was shuffled, and a maximum is
\* configured for the kind that the number of items does not exceed.
C8_EveryKindShuffledAndCapped ==
    feed # NoFeed =>
        /\ ItemsAreMatchingCandidates
        /\ shuffled
        /\ IsSome(item_limit(kind))
        /\ Len(feed.items) <= Unwrap(item_limit(kind))

\* C8, amended: the items are conversions of distinct matching candidates;
\* pile-bookmarks and pile-bookmarks-projects shuffle the filtered set and
\* keep its first 2 and 1; recommended-links neither shuffles nor
\* truncates: its items are all the matching candidates, in source order.
C8_PileFeedsShuffledAndCapped ==
    feed # NoFeed =>
        /\ ItemsAreMatchingCandidates
        /\ kind = PILE_BOOKMARKS =>
              /\ shuffled
              /\ Len(feed.items) =
                    IF Cardinality(Matching) < 2 THEN Cardinality(Matching)
                    ELSE 2
        /\ kind = PILE_BOOKMARKS_PROJECTS =>
              /\ shuffled
              /\ Len(feed.items) =
                    IF Cardinality(Matching) < 1 THEN Cardinality(Matching)
                    ELSE 1
        /\ kind = RECOMMENDED_LINKS =>
              /\ ~shuffled
              /\ Len(feed.items) = Cardinality(Matching)
              /\ \A i, j \in 1..Len(picked) : i < j => picked[i] < picked[j]

C8_Witness ==
    /\ feed # NoFeed
    /\ kind = PILE_BOOKMARKS
    /\ Cardinality(Matching) = 3
    /\ Len(feed.items) = 2
    /\ picked[1] > picked[2]

\* C9: when the directory, the index or a candidate note file cannot be
\* read, the run aborts: it ends in failure and writes no output file.
C9_UnreadableIsFatal ==
    (~srcOk \/ \E i \in 1..Len(entries) : ~entries[i].readable)
    => /\ outFile = "none"
       /\ exit # "ok"
       /\ rpc = "done" => exit = "panic"

(***************************************************************************)
(* Claims on the classification of bookmarks.                              *)
(***************************************************************************)
\* C11: a bookmark that is unread is never recommended, and a bookmark is
\* recommended exactly when its tags hold `recommend` and do not hold
\* `unsorted`, whatever its other tags and its reference.
C11_RecommendedIffTaggedAndSorted ==
    IsSome(recommended) =>
        /\ (IsSome(unread) /\ Unwrap(unread)) => ~Unwrap(recommended)
        /\ Unwrap(recommended) <=>
               (HasTag(subject, RECOMMEND) /\ ~HasTag(subject, UNSORTED))

\* Both tags at once: unread, hence not recommended.
C11_Witness ==
    /\ HasTag(subject, RECOMMEND)
    /\ HasTag(subject, UNSORTED)
    /\ unread = Some(TRUE)
    /\ recommended = Some(FALSE)

\* C12: a bookmark is a project exactly when its tags hold the tag
\* `project` itself or its reference begins with https://github.com; with
\* neither, it is not a project.
C12_ProjectIffTaggedOrOnGithub ==
    IsSome(project) =>
        (Unwrap(project) <=>
            \/ \E j \in 1..Len(subject.tags) : subject.tags[j] = PROJECT
            \/ /\ Len(subject.ref_) >= Len(GITHUB_PREFIX)
               /\ \A k \in 1..Len(GITHUB_PREFIX) :
                      subject.ref_[k] = GITHUB_PREFIX[k])

\* A project by its reference alone, under tags that only resemble the
\* project tag.
C12_Witness ==
    /\ ~HasTag(subject, PROJECT)
    /\ HasTag(subject, TAG_PROJECTS)
    /\ subject.ref_ = REF_GITHUB_REPO
    /\ project = Some(TRUE)

(***************************************************************************)
(* Claims on the rendering of an item.                                     *)
(***************************************************************************)
\* The pieces of the returned String that open as the element does, and
\* the text between the opening and the closing of such a piece.
Elements(open) ==
    {k \in 1..Len(Unwrap(xml)) :
        /\ Len(Unwrap(xml)[k]) >= Len(open)
        /\ SubSeq(Unwrap(xml)[k], 1, Len(open)) = open}

ElementText(k, open, close) ==
    SubSeq(Unwrap(xml)[k], Len(open) + 1, Len(Unwrap(xml)[k]) - Len(close))

Entities ==
    {<<"&", "q", "u", "o", "t", ";">>, <<"&", "a", "m", "p", ";">>,
     <<"&", "#", "x", "2", "7", ";">>, <<"&", "l", "t", ";">>,
     <<"&", "g", "t", ";">>}

\* No raw <, > or ", and every & opens an entity.
IsEscaped(text) ==
    \A i \in 1..Len(text) :
        /\ text[i] \notin {"<", ">", "\""}
        /\ text[i] = "&" =>
              \E e \in Entities :
                  /\ i + Len(e) - 1 <= Len(text)
                  /\ SubSeq(text, i, i + Len(e) - 1) = e

TitleAndSummaryEscaped ==
    /\ Cardinality(Elements(TITLE_OPEN)) = 1
    /\ \A k \in Elements(TITLE_OPEN) :
           IsEscaped(ElementText(k, TITLE_OPEN, TITLE_CLOSE))
    /\ \A k \in Elements(SUMMARY_OPEN) :
           IsEscaped(ElementText(k, SUMMARY_OPEN, SUMMARY_CLOSE))

C14_PublishedNotAfterUpdated ==
    /\ phase = "converted" => res.val.published = res.val.updated
    /\ res.val.published <= res.val.updated
    /\ c # NoItem => c.published <= c.updated

\* A merged item as the second operand of a merged item set aside: the
\* published of the one set aside, the later updated of the other.
C14_Witness ==
    /\ phase = "second"
    /\ c # NoItem
    /\ c.published < c.updated
    /\ res.val.published = c.published
    /\ res.val.updated > c.updated
    /\ IsSome(res.val.summary)
    /\ Len(Unwrap(res.val.summary)) > 1

=============================================================================
